---- MODULE Spec2Model ----
(***************************************************************************)
(* Model of src/convert_to_hf.py: the batch conversion driver              *)
(* process_checkpoints and the two helpers it calls, update_config and     *)
(* modify_state_dict.                                                      *)
(*                                                                         *)
(* Representation.                                                         *)
(*  - File names are sequences of one-character strings, so that           *)
(*    endswith('.pt'), split(".")[0] and the basename sort are computed    *)
(*    character by character as Python does.                               *)
(*  - Weight keys are sequences of tokens ("bert", ".", "encoder", ...).   *)
(*    The only token containing the letter b is "bert", so an occurrence   *)
(*    of 'bert.' or 'bert.encoder.' in the concatenated string always      *)
(*    starts at a token boundary and str.replace can be computed on tokens.*)
(*  - A JSON config is a function from field names to values; every value  *)
(*    is written as a string ("8192", "sans_pos").                         *)
(*  - A state dict is a sequence of <<key, tensor>> pairs with distinct    *)
(*    keys (Python dicts keep insertion order).                            *)
(***************************************************************************)
EXTENDS Integers, Sequences, FiniteSets, TLC

VARIABLES
    environ,               \* os.environ, restricted to HF_TOKEN
    input_dir,             \* names of the files in input_dir
    ckpt_config,           \* native config the decoder yields for each checkpoint file
    size,                  \* the size argument
    hub,                   \* config.json of the answerdotai/ModernBERT-<size> repository
    output,                \* output_dir: subdirectory name -> its files
    pc,                    \* position inside process_checkpoints
    checkpoint_files,      \* sorted list of checkpoint paths (l.136-146)
    saved_tokenizer_files, \* file name -> bytes (l.157-167)
    scratch,               \* shared_tmp_dir and its config.json / pytorch_model.bin
    original_config,       \* l.187-188
    idx,                   \* position of the for loop of l.191 in checkpoint_files
    tok_i,                 \* position of the tokenizer loops (l.160, l.223)
    current_config,        \* update_config local (l.70)
    modernbert_config,     \* update_config local (l.74-101)
    state_dict,            \* modify_state_dict local (l.115)
    new_state_dict,        \* modify_state_dict local (l.118-122)
    runs,                  \* history: number of the current call of process_checkpoints
    start_output,          \* history: output as it was when the current call began
    converted,             \* history: loop positions that reached l.228 in this call
    decoded_idx,           \* history: loop positions decoded at l.204 in this call
    written_idx,           \* history: loop positions with a write under output_dir in this call
    failed_at,             \* history: loop position whose try block raised (0: none)
    fetches,               \* history: calls of get_modernbert_config in this call
    downloads,             \* history: tokenizer files downloaded in this call
    decodes,               \* history: decoder calls in this call
    scratch_made           \* history: the scratch workspace was created in this call

world == <<environ, input_dir, ckpt_config, size, hub>>
locals == <<checkpoint_files, saved_tokenizer_files, original_config, idx, tok_i>>
fnlocals == <<current_config, modernbert_config, state_dict, new_state_dict>>
history == <<runs, start_output, converted, decoded_idx, written_idx, failed_at,
             fetches, downloads, decodes, scratch_made>>
vars == <<world, output, pc, scratch, locals, fnlocals, history>>

----------------------------------------------------------------------------
(* Bounds of the model *)

MaxRuns == 2          \* calls of process_checkpoints in one behaviour
MaxKeyLen == 5        \* tokens in the key of a one-entry state dict
PairKeyLen == 3       \* tokens in each key of a two-entry state dict

----------------------------------------------------------------------------
(* Generic helpers *)

\* d[k] = v on a Python dict held as a function
Put(d, k, v) == [x \in (DOMAIN d) \cup {k} |-> IF x = k THEN v ELSE d[x]]

EmptyDict == <<>>

RECURSIVE StartsWith(_, _)
StartsWith(s, p) ==
    IF p = <<>> THEN TRUE
    ELSE IF s = <<>> THEN FALSE
    ELSE Head(s) = Head(p) /\ StartsWith(Tail(s), Tail(p))

EndsWith(s, suf) ==
    /\ Len(s) >= Len(suf)
    /\ SubSeq(s, Len(s) - Len(suf) + 1, Len(s)) = suf

Drop(s, n) == SubSeq(s, n + 1, Len(s))

\* str.replace(old, new): every non-overlapping occurrence, left to right
RECURSIVE Replace(_, _, _)
Replace(s, old, new) ==
    IF s = <<>> THEN <<>>
    ELSE IF StartsWith(s, old) THEN new \o Replace(Drop(s, Len(old)), old, new)
    ELSE <<Head(s)>> \o Replace(Tail(s), old, new)

\* str.split(".")[0]: the characters before the first dot
RECURSIVE SplitFirst(_)
SplitFirst(s) ==
    IF s = <<>> \/ Head(s) = "." THEN <<>>
    ELSE <<Head(s)>> \o SplitFirst(Tail(s))

\* code point order of the characters used in file names
CharOrder == <<".", "0", "1", "2", "5", "e", "g", "l", "o", "p", "t", "x">>
Ord(c) == CHOOSE i \in 1..Len(CharOrder) : CharOrder[i] = c

\* Python's < on str
RECURSIVE LexLess(_, _)
LexLess(a, b) ==
    IF a = <<>> THEN b # <<>>
    ELSE IF b = <<>> THEN FALSE
    ELSE IF Head(a) = Head(b) THEN LexLess(Tail(a), Tail(b))
    ELSE Ord(Head(a)) < Ord(Head(b))

\* os.path.join(dir, name) and os.path.basename(path)
Join(dir, name) == <<dir, name>>
Basename(path) == path[Len(path)]

\* list.sort(key=lambda x: os.path.basename(x)) on a list of distinct paths
RECURSIVE SortByBasename(_)
SortByBasename(S) ==
    IF S = {} THEN <<>>
    ELSE LET m == CHOOSE p \in S :
                     \A q \in S \ {p} : LexLess(Basename(p), Basename(q))
         IN <<m>> \o SortByBasename(S \ {m})

----------------------------------------------------------------------------
(* get_modernbert_config and update_config *)

SupportedSizes == {"base", "large"}

\* get_modernbert_config(size): the repository's config.json
get_modernbert_config(sz, repo) == repo

field_mappings ==
    << <<"rotary_emb_base", "global_rope_theta">>,
       <<"num_hidden_layers", "num_hidden_layers">>,
       <<"hidden_size", "hidden_size">>,
       <<"intermediate_size", "intermediate_size">>,
       <<"num_attention_heads", "num_attention_heads">>,
       <<"vocab_size", "vocab_size">> >>

fixed_values ==
    << <<"max_position_embeddings", "8192">>,
       <<"bos_token_id", "2">>,
       <<"mask_token_id", "4">>,
       <<"pad_token_id", "0">>,
       <<"eos_token_id", "1">>,
       <<"sep_token_id", "1">>,
       <<"cls_token_id", "1">>,
       <<"position_embedding_type", "sans_pos">> >>

\* the loop of l.87-91, from mapping i on
RECURSIVE ApplyMappings(_, _, _)
ApplyMappings(cfg, cur, i) ==
    IF i > Len(field_mappings) THEN cfg
    ELSE LET old_field == field_mappings[i][1]
             new_field == field_mappings[i][2]
         IN ApplyMappings(IF old_field \in DOMAIN cur
                             THEN Put(cfg, new_field, cur[old_field])
                             ELSE cfg,
                          cur, i + 1)

\* the assignments of l.94-101, from assignment i on
RECURSIVE ApplyFixed(_, _)
ApplyFixed(cfg, i) ==
    IF i > Len(fixed_values) THEN cfg
    ELSE ApplyFixed(Put(cfg, fixed_values[i][1], fixed_values[i][2]), i + 1)

\* a reconciler that starts from the checkpoint's config instead of the base one
update_config_from_current(cur, base) ==
    ApplyFixed(ApplyMappings(cur, cur, 1), 1)

\* the document update_config writes back to config_path
update_config(cur, base) ==
    ApplyFixed(ApplyMappings(base, cur, 1), 1)

----------------------------------------------------------------------------
(* modify_state_dict *)

BertEncoderDot == <<"bert", ".", "encoder", ".">>
BertDot == <<"bert", ".">>
ModelDot == <<"model", ".">>

\* l.121
RewriteKey(old_key) ==
    Replace(Replace(old_key, BertEncoderDot, ModelDot), BertDot, ModelDot)

KeysOf(sd) == {sd[i][1] : i \in 1..Len(sd)}

\* new_state_dict[k] = t: an existing key keeps its place and takes the new tensor
DictSet(sd, k, t) ==
    IF k \in KeysOf(sd)
    THEN [i \in 1..Len(sd) |-> IF sd[i][1] = k THEN <<k, t>> ELSE sd[i]]
    ELSE Append(sd, <<k, t>>)

\* the loop of l.119-122, from entry i on
RECURSIVE RewriteFrom(_, _, _)
RewriteFrom(sd, acc, i) ==
    IF i > Len(sd) THEN acc
    ELSE RewriteFrom(sd, DictSet(acc, RewriteKey(sd[i][1]), sd[i][2]), i + 1)

modify_state_dict(sd) == RewriteFrom(sd, <<>>, 1)

----------------------------------------------------------------------------
(* The world process_checkpoints runs in *)

NoneValue == "<None>"

\* os.environ.get(name)
EnvGet(env, name) == IF name \in DOMAIN env THEN env[name] ELSE NoneValue

\* `not hf_token` tested only against None
IsNoneOnly(v) == v = NoneValue

\* `not hf_token` (l.151): None and the empty string are both falsy
Falsy(v) == v = NoneValue \/ v = ""

Environs == {EmptyDict, [HF_TOKEN |-> ""], [HF_TOKEN |-> "hf_secret"]}

Ep15Pt == <<"e", "p", "1", ".", "5", ".", "p", "t">>
Ep1Pt == <<"e", "p", "1", ".", "p", "t">>
Ep10Pt == <<"e", "p", "1", "0", ".", "p", "t">>
Ep2Pt == <<"e", "p", "2", ".", "p", "t">>
LogTxt == <<"l", "o", "g", ".", "t", "x", "t">>
FileUniverse == {Ep15Pt, Ep1Pt, Ep10Pt, Ep2Pt, LogTxt}

PtExt == <<".", "p", "t">>
InputDir == "in"

\* l.136-139
FindCheckpoints(dir) == {Join(InputDir, f) : f \in {g \in dir : EndsWith(g, PtExt)}}

NativeA == [rotary_emb_base |-> "10000", hidden_size |-> "768",
            alibi_starting_size |-> "512"]
NativeB == [hidden_size |-> "1024", vocab_size |-> "50368",
            alibi_starting_size |-> "1024"]
NativeChoices == {NativeA, NativeB}

ModernBERTBase == [global_rope_theta |-> "160000.0", hidden_size |-> "768",
                   vocab_size |-> "50368", hidden_activation |-> "gelu",
                   pad_token_id |-> "50283"]

\* the weights the decoder yields for a checkpoint: its tensors are its own
PtFiles == <<Ep15Pt, Ep1Pt, Ep10Pt, Ep2Pt>>
TensorOf(name) == CHOOSE i \in 1..Len(PtFiles) : PtFiles[i] = name
DecodedWeights(name) ==
    << <<BertEncoderDot \o <<"w">>, TensorOf(name)>>, <<<<"w">>, TensorOf(name) + 100>> >>

tokenizer_files == <<"tokenizer.json", "tokenizer_config.json", "special_tokens_map.json">>
TokenizerNames == {tokenizer_files[i] : i \in 1..Len(tokenizer_files)}
\* the bytes hf_hub_download yields for a tokenizer file
HubBytes(file_name) == <<"bytes of", file_name>>

WeightsName == "pytorch_model.bin"
ConfigName == "config.json"

RemovedScratch == [exists |-> FALSE, config |-> EmptyDict, weights |-> <<>>]
EmptySubdir == [files |-> {}, torn |-> {}, weights |-> <<>>, config |-> EmptyDict,
                tok |-> EmptyDict]

\* write_huggingface_pretrained_from_composer_checkpoint(path, shared_tmp_dir)
DecodeInto(path) ==
    [exists |-> TRUE, config |-> ckpt_config[Basename(path)],
     weights |-> DecodedWeights(Basename(path))]

\* l.192
OutputSubdir(path) == SplitFirst(Basename(path))

\* l.195
AlreadyProcessed(out, d) == d \in DOMAIN out /\ WeightsName \in out[d].files

\* os.makedirs(output_subdir, exist_ok=True)
MakeDirsIn(out, d) == IF d \in DOMAIN out THEN out ELSE Put(out, d, EmptySubdir)

\* a run that keeps the scratch workspace when it ends
ScratchLeft(s) == s

\* leaving the `with tempfile.TemporaryDirectory()` block of l.174
ScratchAfterExit(s) == RemovedScratch

\* a restore step that keeps the config the decoder has just written
KeepDecodedConfig(orig, decoded) == decoded

\* l.210-211: the content of the scratch config.json after the restore
RestoredConfig(orig, decoded) == orig

IdleLocals ==
    /\ checkpoint_files = <<>>
    /\ saved_tokenizer_files = EmptyDict
    /\ original_config = EmptyDict
    /\ idx = 0
    /\ tok_i = 0

IdleFnLocals ==
    /\ current_config = EmptyDict
    /\ modernbert_config = EmptyDict
    /\ state_dict = <<>>
    /\ new_state_dict = <<>>

FreshHistory(n, out) ==
    /\ runs = n
    /\ start_output = out
    /\ converted = {}
    /\ decoded_idx = {}
    /\ written_idx = {}
    /\ failed_at = 0
    /\ fetches = 0
    /\ downloads = 0
    /\ decodes = 0
    /\ scratch_made = FALSE

Init ==
    /\ environ \in Environs
    /\ input_dir \in SUBSET FileUniverse
    /\ ckpt_config \in [{f \in input_dir : EndsWith(f, PtExt)} -> NativeChoices]
    /\ size \in SupportedSizes
    /\ hub = ModernBERTBase
    /\ output = EmptyDict
    /\ pc = "scan"
    /\ scratch = RemovedScratch
    /\ IdleLocals
    /\ IdleFnLocals
    /\ FreshHistory(1, EmptyDict)

----------------------------------------------------------------------------
(* process_checkpoints, step by step *)

Current == checkpoint_files[idx]
CurrentSubdir == OutputSubdir(Current)

\* l.134-147
Scan ==
    /\ pc = "scan"
    /\ LET found == FindCheckpoints(input_dir)
       IN IF found = {}
          THEN /\ pc' = "returned"
               /\ UNCHANGED checkpoint_files
          ELSE /\ pc' = "token"
               /\ checkpoint_files' = SortByBasename(found)
    /\ UNCHANGED <<world, output, scratch, saved_tokenizer_files, original_config,
                   idx, tok_i, fnlocals, history>>

\* l.149-152
CheckToken ==
    /\ pc = "token"
    /\ IF Falsy(EnvGet(environ, "HF_TOKEN"))
       THEN pc' = "raised" /\ UNCHANGED tok_i
       ELSE pc' = "download" /\ tok_i' = 1
    /\ UNCHANGED <<world, output, scratch, checkpoint_files, saved_tokenizer_files,
                   original_config, idx, fnlocals, history>>

\* l.160-168, one file
DownloadTokenizer ==
    /\ pc = "download"
    /\ saved_tokenizer_files' =
           Put(saved_tokenizer_files, tokenizer_files[tok_i], HubBytes(tokenizer_files[tok_i]))
    /\ downloads' = downloads + 1
    /\ IF tok_i = Len(tokenizer_files)
       THEN pc' = "mktemp" /\ tok_i' = 0
       ELSE pc' = pc /\ tok_i' = tok_i + 1
    /\ UNCHANGED <<world, output, scratch, checkpoint_files, original_config, idx,
                   fnlocals, runs, start_output, converted, decoded_idx, written_idx,
                   failed_at, fetches, decodes, scratch_made>>

\* l.174
MakeScratch ==
    /\ pc = "mktemp"
    /\ scratch' = [exists |-> TRUE, config |-> EmptyDict, weights |-> <<>>]
    /\ scratch_made' = TRUE
    /\ pc' = "first_decode"
    /\ UNCHANGED <<world, output, locals, fnlocals, runs, start_output, converted,
                   decoded_idx, written_idx, failed_at, fetches, downloads, decodes>>

\* l.177-188
FirstDecode ==
    /\ pc = "first_decode"
    /\ scratch' = DecodeInto(checkpoint_files[1])
    /\ original_config' = scratch'.config
    /\ decodes' = decodes + 1
    /\ idx' = 1
    /\ pc' = "loop"
    /\ UNCHANGED <<world, output, checkpoint_files, saved_tokenizer_files, tok_i,
                   fnlocals, runs, start_output, converted, decoded_idx, written_idx,
                   failed_at, fetches, downloads, scratch_made>>

\* l.191 exhausted: the with block ends and the function returns
LoopDone ==
    /\ pc = "loop"
    /\ idx > Len(checkpoint_files)
    /\ scratch' = ScratchAfterExit(scratch)
    /\ pc' = "returned"
    /\ UNCHANGED <<world, output, locals, fnlocals, history>>

\* l.192-197
SkipProcessed ==
    /\ pc = "loop"
    /\ idx <= Len(checkpoint_files)
    /\ AlreadyProcessed(output, CurrentSubdir)
    /\ idx' = idx + 1
    /\ UNCHANGED <<world, output, pc, scratch, checkpoint_files, saved_tokenizer_files,
                   original_config, tok_i, fnlocals, history>>

\* l.192-199
MakeDirs ==
    /\ pc = "loop"
    /\ idx <= Len(checkpoint_files)
    /\ ~AlreadyProcessed(output, CurrentSubdir)
    /\ output' = MakeDirsIn(output, CurrentSubdir)
    /\ written_idx' = written_idx \cup {idx}
    /\ pc' = "decode"
    /\ UNCHANGED <<world, scratch, locals, fnlocals, runs, start_output, converted,
                   decoded_idx, failed_at, fetches, downloads, decodes, scratch_made>>

\* l.204-207
Decode ==
    /\ pc = "decode"
    /\ scratch' = DecodeInto(Current)
    /\ decodes' = decodes + 1
    /\ decoded_idx' = decoded_idx \cup {idx}
    /\ pc' = "restore_config"
    /\ UNCHANGED <<world, output, locals, fnlocals, runs, start_output, converted,
                   written_idx, failed_at, fetches, downloads, scratch_made>>

\* l.210-211
RestoreConfig ==
    /\ pc = "restore_config"
    /\ scratch' = [scratch EXCEPT !.config = RestoredConfig(original_config, scratch.config)]
    /\ pc' = "update_config"
    /\ UNCHANGED <<world, output, locals, fnlocals, history>>

\* l.212 with update_config (l.64-107) and get_modernbert_config (l.46-59)
UpdateConfig ==
    /\ pc = "update_config"
    /\ size \in SupportedSizes
    /\ current_config' = scratch.config
    /\ fetches' = fetches + 1
    /\ modernbert_config' = update_config(scratch.config, get_modernbert_config(size, hub))
    /\ scratch' = [scratch EXCEPT !.config = modernbert_config']
    /\ pc' = "modify_state_dict"
    /\ UNCHANGED <<world, output, locals, state_dict, new_state_dict, runs, start_output,
                   converted, decoded_idx, written_idx, failed_at, downloads, decodes,
                   scratch_made>>

\* l.215-216 with modify_state_dict (l.112-130)
ModifyStateDict ==
    /\ pc = "modify_state_dict"
    /\ state_dict' = scratch.weights
    /\ new_state_dict' = modify_state_dict(scratch.weights)
    /\ scratch' = [scratch EXCEPT !.weights = new_state_dict']
    /\ pc' = "copy_weights"
    /\ UNCHANGED <<world, output, locals, current_config, modernbert_config, history>>

\* l.219
CopyWeights ==
    /\ pc = "copy_weights"
    /\ output' = [output EXCEPT ![CurrentSubdir] =
                      [@ EXCEPT !.files = @ \cup {WeightsName},
                                !.torn = @ \ {WeightsName},
                                !.weights = scratch.weights]]
    /\ pc' = "copy_config"
    /\ UNCHANGED <<world, scratch, locals, fnlocals, history>>

\* l.220
CopyConfig ==
    /\ pc = "copy_config"
    /\ output' = [output EXCEPT ![CurrentSubdir] =
                      [@ EXCEPT !.files = @ \cup {ConfigName},
                                !.torn = @ \ {ConfigName},
                                !.config = scratch.config]]
    /\ tok_i' = 1
    /\ pc' = "write_tokenizer"
    /\ UNCHANGED <<world, scratch, checkpoint_files, saved_tokenizer_files,
                   original_config, idx, fnlocals, history>>

\* l.223-228, one file; after the last one the loop moves on
WriteTokenizer ==
    /\ pc = "write_tokenizer"
    /\ LET file_name == tokenizer_files[tok_i]
       IN output' = [output EXCEPT ![CurrentSubdir] =
                         [@ EXCEPT !.files = @ \cup {file_name},
                                   !.torn = @ \ {file_name},
                                   !.tok = Put(@, file_name, saved_tokenizer_files[file_name])]]
    /\ IF tok_i = Len(tokenizer_files)
       THEN /\ converted' = converted \cup {idx}
            /\ idx' = idx + 1
            /\ tok_i' = 0
            /\ pc' = "loop"
       ELSE /\ tok_i' = tok_i + 1
            /\ UNCHANGED <<converted, idx, pc>>
    /\ UNCHANGED <<world, scratch, checkpoint_files, saved_tokenizer_files,
                   original_config, fnlocals, runs, start_output, decoded_idx,
                   written_idx, failed_at, fetches, downloads, decodes, scratch_made>>

\* the steps inside the try block of l.201-231
TrySteps == {"decode", "restore_config", "update_config", "modify_state_dict",
             "copy_weights", "copy_config", "write_tokenizer"}
\* the steps outside it that call the hub, the decoder or the file system
OtherFailingSteps == {"download", "first_decode"}
\* the steps that create a file under the output directory
WritingSteps == {"copy_weights", "copy_config", "write_tokenizer"}

WrittenFile ==
    IF pc = "copy_weights" THEN WeightsName
    ELSE IF pc = "copy_config" THEN ConfigName
    ELSE tokenizer_files[tok_i]

\* an except clause that logs the failure and goes on with the next checkpoint
RaiseAndContinue ==
    /\ pc \in TrySteps
    /\ failed_at' = idx
    /\ idx' = idx + 1
    /\ pc' = "loop"
    /\ UNCHANGED <<world, output, scratch, checkpoint_files, saved_tokenizer_files,
                   original_config, tok_i, fnlocals, runs, start_output, converted,
                   decoded_idx, written_idx, fetches, downloads, decodes, scratch_made>>

\* a step raises before it changes anything: l.169-171, l.229-231, and the
\* exception leaving the with block of l.174
Raise ==
    /\ pc \in TrySteps \cup OtherFailingSteps
    /\ failed_at' = IF pc \in TrySteps THEN idx ELSE failed_at
    /\ scratch' = IF scratch.exists THEN ScratchAfterExit(scratch) ELSE scratch
    /\ pc' = "raised"
    /\ UNCHANGED <<world, output, locals, fnlocals, runs, start_output, converted,
                   decoded_idx, written_idx, fetches, downloads, decodes, scratch_made>>

\* a copy or a write raises after it created its destination file (l.219-226)
RaiseTorn ==
    /\ pc \in WritingSteps
    /\ output' = [output EXCEPT ![CurrentSubdir] =
                      [@ EXCEPT !.files = @ \cup {WrittenFile},
                                !.torn = @ \cup {WrittenFile}]]
    /\ failed_at' = idx
    /\ scratch' = ScratchAfterExit(scratch)
    /\ pc' = "raised"
    /\ UNCHANGED <<world, locals, fnlocals, runs, start_output, converted,
                   decoded_idx, written_idx, fetches, downloads, decodes, scratch_made>>

\* the script is started again on the same directories
Rerun ==
    /\ pc \in {"returned", "raised"}
    /\ runs < MaxRuns
    /\ pc' = "scan"
    /\ checkpoint_files' = <<>>
    /\ saved_tokenizer_files' = EmptyDict
    /\ original_config' = EmptyDict
    /\ idx' = 0
    /\ tok_i' = 0
    /\ current_config' = EmptyDict
    /\ modernbert_config' = EmptyDict
    /\ state_dict' = <<>>
    /\ new_state_dict' = <<>>
    /\ runs' = runs + 1
    /\ start_output' = output
    /\ converted' = {}
    /\ decoded_idx' = {}
    /\ written_idx' = {}
    /\ failed_at' = 0
    /\ fetches' = 0
    /\ downloads' = 0
    /\ decodes' = 0
    /\ scratch_made' = FALSE
    /\ UNCHANGED <<world, output, scratch>>

Next ==
    \/ Scan
    \/ CheckToken
    \/ DownloadTokenizer
    \/ MakeScratch
    \/ FirstDecode
    \/ LoopDone
    \/ SkipProcessed
    \/ MakeDirs
    \/ Decode
    \/ RestoreConfig
    \/ UpdateConfig
    \/ ModifyStateDict
    \/ CopyWeights
    \/ CopyConfig
    \/ WriteTokenizer
    \/ Raise
    \/ RaiseTorn
    \/ Rerun

Spec == Init /\ [][Next]_vars

----------------------------------------------------------------------------
(* update_config on its own: every native and base config over small field sets *)

ConfigValues == {"v1", "v2"}
NativeFieldUniverse == {"rotary_emb_base", "hidden_size", "alibi_starting_size",
                        "pad_token_id"}
BaseFieldUniverse == {"global_rope_theta", "hidden_size", "hidden_activation",
                      "pad_token_id", "position_embedding_type", "rotary_emb_base"}
ConfigsOver(fields) == UNION {[D -> ConfigValues] : D \in SUBSET fields}

InitConfig ==
    /\ environ = [HF_TOKEN |-> "hf_secret"]
    /\ input_dir = {}
    /\ ckpt_config = EmptyDict
    /\ size \in SupportedSizes
    /\ hub \in ConfigsOver(BaseFieldUniverse)
    /\ output = EmptyDict
    /\ pc = "update_config"
    /\ \E c \in ConfigsOver(NativeFieldUniverse) :
           scratch = [exists |-> TRUE, config |-> c, weights |-> <<>>]
    /\ IdleLocals
    /\ IdleFnLocals
    /\ FreshHistory(1, EmptyDict)

NextConfig == UpdateConfig

SpecConfig == InitConfig /\ [][NextConfig]_vars

----------------------------------------------------------------------------
(* modify_state_dict on its own: every small state dict *)

Tokens == {"bert", "encoder", "model", ".", "w"}
KeysUpTo(n) == UNION {[1..k -> Tokens] : k \in 1..n}
StateDicts ==
    {<<>>}
    \cup {<< <<k, 1>> >> : k \in KeysUpTo(MaxKeyLen)}
    \cup {<< <<kk[1], 1>>, <<kk[2], 2>> >> :
              kk \in {p \in KeysUpTo(PairKeyLen) \X KeysUpTo(PairKeyLen) : p[1] # p[2]}}

InitRewrite ==
    /\ environ = [HF_TOKEN |-> "hf_secret"]
    /\ input_dir = {}
    /\ ckpt_config = EmptyDict
    /\ size = "base"
    /\ hub = ModernBERTBase
    /\ output = EmptyDict
    /\ pc = "modify_state_dict"
    /\ \E sd \in StateDicts :
           scratch = [exists |-> TRUE, config |-> EmptyDict, weights |-> sd]
    /\ IdleLocals
    /\ IdleFnLocals
    /\ FreshHistory(1, EmptyDict)

NextRewrite == ModifyStateDict

SpecRewrite == InitRewrite /\ [][NextRewrite]_vars

----------------------------------------------------------------------------
(* Properties *)

N == Len(checkpoint_files)
NameOf(i) == Basename(checkpoint_files[i])
SubdirOf(i) == OutputSubdir(checkpoint_files[i])
TokenMissing == "HF_TOKEN" \notin DOMAIN environ \/ environ["HF_TOKEN"] = ""
AllOutputFiles == {WeightsName, ConfigName} \cup TokenizerNames

\* the positions whose output subdirectory held the weights file when the call began
MarkedAtStart ==
    {i \in 1..N : SubdirOf(i) \in DOMAIN start_output
                  /\ WeightsName \in start_output[SubdirOf(i)].files}

\* C1: a call that returns normally has converted exactly the checkpoints whose
\* output subdirectory had no weights file when it began, and has left the
\* subdirectories of the others as they were.
C1_ConvertsExactlyUnmarked ==
    (pc = "returned" /\ N > 0) =>
        /\ converted = (1..N) \ MarkedAtStart
        /\ \A i \in MarkedAtStart : output[SubdirOf(i)] = start_output[SubdirOf(i)]

\* the fixed constants as the specification lists them
ClaimedFixed ==
    [max_position_embeddings |-> "8192", bos_token_id |-> "2", mask_token_id |-> "4",
     pad_token_id |-> "0", eos_token_id |-> "1", sep_token_id |-> "1",
     cls_token_id |-> "1", position_embedding_type |-> "sans_pos"]
MappingTargets == {field_mappings[i][2] : i \in 1..Len(field_mappings)}

\* C2: the config update_config writes keeps every base field that is neither a
\* mapping target nor a fixed constant, sets every mapping target whose native
\* field is present to the native value, and holds every fixed constant at its
\* literal whatever the inputs held.
C2_ReconciledConfig ==
    pc = "modify_state_dict" =>
        /\ scratch.config = modernbert_config
        /\ \A f \in DOMAIN hub :
               (f \notin MappingTargets /\ f \notin DOMAIN ClaimedFixed) =>
                   (f \in DOMAIN modernbert_config /\ modernbert_config[f] = hub[f])
        /\ \A i \in 1..Len(field_mappings) :
               field_mappings[i][1] \in DOMAIN current_config =>
                   /\ field_mappings[i][2] \in DOMAIN modernbert_config
                   /\ modernbert_config[field_mappings[i][2]] =
                          current_config[field_mappings[i][1]]
        /\ \A f \in DOMAIN ClaimedFixed :
               f \in DOMAIN modernbert_config /\ modernbert_config[f] = ClaimedFixed[f]

\* update_config has run on a native config with a mapped field, over a base config
\* that holds an unmapped field and other values for a mapped target and a constant
C2_Witness ==
    /\ pc = "modify_state_dict"
    /\ "rotary_emb_base" \in DOMAIN current_config
    /\ "hidden_activation" \in DOMAIN hub
    /\ "global_rope_theta" \in DOMAIN hub
    /\ hub["global_rope_theta"] # current_config["rotary_emb_base"]
    /\ "pad_token_id" \in DOMAIN hub
    /\ "pad_token_id" \in DOMAIN current_config

\* C3: modify_state_dict returns as many entries as it was given, and every input
\* tensor is in the output under the rewritten name of its key.
C3_SameEntries ==
    pc = "copy_weights" =>
        /\ Len(new_state_dict) = Len(state_dict)
        /\ \A i \in 1..Len(state_dict) :
               \E j \in 1..Len(new_state_dict) :
                   new_state_dict[j] = <<RewriteKey(state_dict[i][1]), state_dict[i][2]>>

\* the rewrite as the specification describes it: the leading prefix only
PrefixRewrite(key) ==
    IF StartsWith(key, BertEncoderDot) THEN ModelDot \o Drop(key, Len(BertEncoderDot))
    ELSE IF StartsWith(key, BertDot) THEN ModelDot \o Drop(key, Len(BertDot))
    ELSE key

\* C4: every key is rewritten at its leading prefix only: bert.encoder. becomes
\* model., otherwise bert. becomes model., and any other key is kept as it is.
C4_PrefixOnly ==
    pc = "copy_weights" =>
        \A i \in 1..Len(state_dict) :
            PrefixRewrite(state_dict[i][1]) \in KeysOf(new_state_dict)

\* basename without the extension
StripExt(name) == SubSeq(name, 1, Len(name) - Len(PtExt))

\* C5: a call into an empty output directory that returns normally leaves one
\* subdirectory per checkpoint file, named by the basename without its extension,
\* each with the weights file, the config file and the three tokenizer files.
C5_OneSubdirPerCheckpoint ==
    (pc = "returned" /\ N > 0 /\ start_output = EmptyDict) =>
        /\ Cardinality(DOMAIN output) = N
        /\ \A i \in 1..N :
               /\ StripExt(NameOf(i)) \in DOMAIN output
               /\ AllOutputFiles \subseteq output[StripExt(NameOf(i))].files

\* C6: the base config is fetched at most once in one call of process_checkpoints.
C6_FetchedAtMostOnce == fetches <= 1

\* C7: with a checkpoint found and HF_TOKEN unset or empty, the call raises before
\* any tokenizer download, before the scratch workspace exists and before any
\* decode, and creates nothing under the output directory.
C7_NoTokenNoWork ==
    (N > 0 /\ TokenMissing /\ pc # "token") =>
        /\ pc = "raised"
        /\ downloads = 0
        /\ saved_tokenizer_files = EmptyDict
        /\ ~scratch_made
        /\ ~scratch.exists
        /\ decodes = 0
        /\ output = start_output

C7_Witness ==
    /\ pc = "raised"
    /\ N > 0
    /\ "HF_TOKEN" \in DOMAIN environ
    /\ environ["HF_TOKEN"] = ""

\* the subdirectory of position i holds all five files, whole, as this call wrote them
CompleteOutput(i) ==
    /\ SubdirOf(i) \in DOMAIN output
    /\ output[SubdirOf(i)].files = AllOutputFiles
    /\ output[SubdirOf(i)].torn = {}
    /\ output[SubdirOf(i)].weights = modify_state_dict(DecodedWeights(NameOf(i)))
    /\ \A t \in TokenizerNames : output[SubdirOf(i)].tok[t] = HubBytes(t)

\* C8: once a step of one checkpoint's processing has failed the call has ended
\* with an error, no later checkpoint has been decoded or written, and the
\* outputs of the checkpoints completed before it are in place.
C8_FailureIsFatal ==
    failed_at # 0 =>
        /\ pc = "raised"
        /\ \A j \in decoded_idx \cup written_idx \cup converted : j <= failed_at
        /\ failed_at \notin converted
        /\ \A j \in converted : CompleteOutput(j)

\* the second of three checkpoints failed after the first was completed
C8_Witness ==
    /\ pc = "raised"
    /\ failed_at = 2
    /\ converted = {1}
    /\ N = 3
    /\ CompleteOutput(1)
    /\ SubdirOf(3) \notin DOMAIN output

\* C9: once the scratch workspace has been created, the call has ended only with
\* the workspace removed.
C9_ScratchRemoved ==
    (scratch_made /\ pc \in {"returned", "raised"}) => ~scratch.exists

C9_Witness ==
    /\ scratch_made
    /\ pc = "raised"
    /\ failed_at # 0
    /\ ~scratch.exists

\* C10 as stated: a converted checkpoint that is not the first has its mapped
\* fields from its own decoded native config.
C10_OwnMappedFields ==
    \A i \in converted :
        i > 1 =>
            \A m \in 1..Len(field_mappings) :
                field_mappings[m][1] \in DOMAIN ckpt_config[NameOf(i)] =>
                    /\ field_mappings[m][2] \in DOMAIN output[SubdirOf(i)].config
                    /\ output[SubdirOf(i)].config[field_mappings[m][2]] =
                           ckpt_config[NameOf(i)][field_mappings[m][1]]

\* C10 amended: every converted checkpoint, first or not, has its mapped fields
\* from the first checkpoint's decoded native config where that config holds the
\* native field and from the base config otherwise; every other field is a fixed
\* constant or a base config field, and no field of a checkpoint's own config
\* outside the mapping reaches the output.
C10_FirstCheckpointFields ==
    \A i \in converted :
        LET first == ckpt_config[NameOf(1)]
            cfg == output[SubdirOf(i)].config
        IN /\ \A m \in 1..Len(field_mappings) :
                  LET old_field == field_mappings[m][1]
                      new_field == field_mappings[m][2]
                  IN IF old_field \in DOMAIN first
                     THEN new_field \in DOMAIN cfg /\ cfg[new_field] = first[old_field]
                     ELSE IF new_field \in DOMAIN hub
                     THEN new_field \in DOMAIN cfg /\ cfg[new_field] = hub[new_field]
                     ELSE new_field \notin DOMAIN cfg
           /\ DOMAIN cfg \subseteq DOMAIN hub \cup MappingTargets \cup DOMAIN ClaimedFixed
           /\ \A f \in DOMAIN hub :
                  (f \notin MappingTargets /\ f \notin DOMAIN ClaimedFixed) =>
                      cfg[f] = hub[f]

\* a checkpoint after the first, whose native config differs from the first's in a
\* mapped field, has been converted
C10_Witness ==
    \E i \in converted :
        /\ i > 1
        /\ ckpt_config[NameOf(i)] # ckpt_config[NameOf(1)]
        /\ "config.json" \in output[SubdirOf(i)].files

\* C11: in the state a call of process_checkpoints leaves behind, whether it
\* returned or raised, on a first run from an empty output directory or on a
\* rerun, every output subdirectory that holds the weights file also holds the
\* config file and the three tokenizer files.  Only a weights file that was
\* copied whole is counted as the marker here.
C11_MarkerMeansComplete ==
    pc \in {"returned", "raised"} =>
        \A d \in DOMAIN output :
            (WeightsName \in output[d].files /\ WeightsName \notin output[d].torn) =>
                AllOutputFiles \subseteq output[d].files

====
